---- MODULE Spec2Model ----
(***************************************************************************)
(* sharetab-backend: the allocation and settlement engine.                 *)
(*                                                                         *)
(*   SettlementService  (calculateBalances, processEqualSplitExpense,      *)
(*                       processItemSplitExpense, findPrimaryPayer,        *)
(*                       calculateOptimalSettlements, generateSettlements) *)
(*   CalculationService (CalculateSingleBill, calculatePersonalCharges)    *)
(*                                                                         *)
(* Money.  A float64 amount is modelled as an exact integer number of      *)
(* units, SubCent units to the cent, so that request fields may carry      *)
(* fractions of a cent and utils.Round does real work.  A quotient that    *)
(* the code forms before rounding (a share, a proportion) is kept as an    *)
(* exact fraction num/den and only utils.Round turns it into units again.  *)
(* Binary floating-point representation error is not modelled.             *)
(*                                                                         *)
(* Go maps.  A map is a function whose DOMAIN is the set of keys present.  *)
(* The iteration order of `for k, v := range m` is unspecified in Go: every*)
(* loop over a map is modelled as a nondeterministic choice of order.      *)
(***************************************************************************)
EXTENDS Integers, Sequences, FiniteSets, TLC

\* ------------------------------------------------------------------ bounds
SubCent == 2          \* units per cent: request amounts come in half cents
MaxExpenses == 2      \* expenses of the trip walked by calculateBalances
MaxItems == 2         \* items of one itemized expense
MaxSplit == 3         \* length of a splitAmong / consumers list
MaxPrice == 3         \* largest unit price, in units
MaxQuantity == 1      \* largest item quantity
MaxItemDiscount == 2  \* largest item discount, in units
MaxSubtotal == 3      \* largest equal-split subtotal, in units
MaxTax == 2           \* largest tax, in units
MaxService == 2       \* largest service charge, in units
MaxDiscount == 1      \* largest total discount, in units

MaxBalance == 3       \* largest balance of a drawn balance map, in cents
MaxSlice == 4         \* longest slice handed to sortByBalance alone
MaxList == 3          \* longest list handed to generateSettlements alone
MaxAdded == 2         \* most expenses added to the trip in one behaviour
MaxCallers == 2       \* AddParticipant calls running at once
MaxPayment == 2       \* largest amount of a payment request, in units

\* the (normalized) names of the people of a trip or a bill, in a fixed order
PersonOrder == <<"a", "b">>

Persons == {PersonOrder[x] : x \in DOMAIN PersonOrder}

\* the people of a balance map handed to calculateOptimalSettlements
SettlePersons == {"a", "b", "c", "d", "e"}

\* ----------------------------------------------------------------- helpers
\* n/d rounded to the nearest integer, halves away from zero (math.Round).
RoundDiv(n, d) ==
  IF n >= 0 THEN (2 * n + d) \div (2 * d)
            ELSE -((2 * (-n) + d) \div (2 * d))

\* A rounding that truncates toward zero instead of rounding to nearest.
RoundTruncating(n, d) ==
  IF n >= 0 THEN SubCent * (n \div (d * SubCent))
            ELSE -(SubCent * ((-n) \div (d * SubCent)))

\* utils.Round: the amount n/d (in units) rounded to whole cents, in units.
Round(n, d) == SubCent * RoundDiv(n, d * SubCent)

\* utils.Min
Min(a, b) == IF a <= b THEN a ELSE b

Abs(x) == IF x < 0 THEN -x ELSE x

\* a map read that yields the zero value for an absent key
Get(m, k) == IF k \in DOMAIN m THEN m[k] ELSE 0

\* m[k] += v, creating the key when absent
Add(m, k, v) ==
  [x \in DOMAIN m \cup {k} |-> IF x = k THEN Get(m, k) + v ELSE m[x]]

EmptyMap == [x \in {} |-> 0]

RECURSIVE SumSeq(_)
SumSeq(s) == IF s = <<>> THEN 0 ELSE Head(s) + SumSeq(Tail(s))

RECURSIVE SumOver(_, _)
SumOver(m, S) ==
  IF S = {} THEN 0
  ELSE LET x == CHOOSE y \in S : TRUE IN m[x] + SumOver(m, S \ {x})

\* sum of the values of a map
SumMap(m) == SumOver(m, DOMAIN m)

\* the orders in which a range loop may visit the key set S
Orders(S) ==
  {o \in [1..Cardinality(S) -> S] : \A x, y \in 1..Cardinality(S) : o[x] = o[y] => x = y}

Index(p) == CHOOSE x \in DOMAIN PersonOrder : PersonOrder[x] = p

\* the non-empty name lists of length at most MaxSplit; a name may occur more than
\* once.  The loops over such a list only add to per-person sums, so one list
\* stands for all its reorderings: the lists are drawn in non-decreasing order.
NameLists ==
  UNION {{l \in [1..n -> Persons] : \A x \in 1..(n - 1) : Index(l[x]) <= Index(l[x + 1])} :
           n \in 1..MaxSplit}

\* the name lists a stored expense can hold: expense_participants and item_consumers
\* have the name in their primary key, so StoreExpense fails on a repeated name
DistinctNameLists == {l \in NameLists : \A x, y \in DOMAIN l : l[x] = l[y] => x = y}

Range(s) == {s[x] : x \in DOMAIN s}

VARIABLES
  pc,                \* where the request is in its handler
  balances,          \* calculateBalances: balances (person -> net amount)
  nExpenses,         \* calculateBalances: expenses walked so far
  exactInput,        \* history: every expense walked so far had no tax, service
                     \* charge or discount and only evenly divisible amounts
  personItemTotals,  \* processItemSplitExpense: personItemTotals
  totalItemAmount,   \* processItemSplitExpense: totalItemAmount
  payerCounts,       \* findPrimaryPayer: payerCounts of the expense's items
  paidBy,            \* the recorded PaidBy of the itemized expense being walked
  nItems,            \* processItemSplitExpense: items walked so far
  creditors,         \* generateSettlements: creditors
  debtors,           \* generateSettlements: debtors
  i,                 \* generateSettlements: creditor cursor (1-based)
  j,                 \* generateSettlements: debtor cursor (1-based)
  settlements,       \* generateSettlements: settlements
  request,           \* CalculateSingleBill: request
  result,            \* CalculateSingleBill: what it returned
  oneExpense,        \* processEqualSplitExpense / processItemSplitExpense: expense
  entry,             \* the argument of the call as it was when the call was made
  creditedPayer,     \* processItemSplitExpense: primaryPayer
  expenses,          \* calculateBalances: expenses
  reordered,         \* the expenses of a second call of calculateBalances
  again,             \* what the second call of calculateBalances returned
  tripParticipants,  \* table trip_participants: the names of the one trip
  stored,            \* tables expenses, expense_participants, expenses_items and
                     \* item_consumers: the expenses of the trip, oldest first
  nextID,            \* utils.GenerateID: the number of ids handed out so far
  fetched,           \* ExpenseRepository.GetExpenses: expenses, as far as loaded
  loading,           \* ExpenseRepository.GetExpenses: the row whose queries come next
  adders,            \* the calls of TripRepository.AddParticipant under way
  payments,          \* table payments
  paymentRequest,    \* PaymentService.CreatePayment: req
  response           \* what the last request to the store was answered with

settleVars == <<balances, nExpenses, exactInput, personItemTotals, totalItemAmount,
                payerCounts, paidBy, nItems, creditors, debtors, i, j, settlements>>

billVars == <<request, result>>

callVars == <<oneExpense, entry, creditedPayer, expenses, reordered, again>>

storeVars == <<tripParticipants, stored, nextID, fetched, loading, adders, payments,
               paymentRequest, response>>

\* ------------------------------------------------------- expense records
\* models.NewEqualExpense
NewEqualExpense(subtotal, tax, serviceCharge, totalDiscount, payer, splitAmong) ==
  [Amount |-> subtotal + tax + serviceCharge - totalDiscount,
   Subtotal |-> subtotal, Tax |-> tax, ServiceCharge |-> serviceCharge,
   TotalDiscount |-> totalDiscount, PaidBy |-> payer,
   SplitType |-> "equal", SplitAmong |-> splitAmong]

\* ExpenseService.CreateEqualExpense: the request's amounts are rounded to cents
CreateEqualExpense(subtotal, tax, serviceCharge, totalDiscount, payer, splitAmong) ==
  NewEqualExpense(Round(subtotal, 1), Round(tax, 1), Round(serviceCharge, 1),
                  Round(totalDiscount, 1), payer, splitAmong)

\* the equal-split expenses a trip can hold
EqualExpenses ==
  {CreateEqualExpense(s, t, sc, d, p, l) :
     s \in 0..MaxSubtotal, t \in 0..MaxTax, sc \in 0..MaxService,
     d \in 0..MaxDiscount, p \in Persons, l \in DistinctNameLists}

\* ExpenseService.processExpenseItems, one item: the stored item
ProcessedItem(unitPrice, quantity, itemDiscount, payer, consumers) ==
  [UnitPrice |-> unitPrice, Quantity |-> quantity, ItemDiscount |-> itemDiscount,
   Amount |-> Round(unitPrice * quantity - itemDiscount, 1),
   PaidBy |-> payer, Consumers |-> consumers]

\* the items an itemized expense of a trip can hold (ValidateItemData: price and
\* quantity positive; the item discount is not validated)
StoredItems ==
  {ProcessedItem(u, q, d, p, l) :
     u \in 1..MaxPrice, q \in 1..MaxQuantity, d \in 0..MaxItemDiscount,
     p \in Persons, l \in DistinctNameLists}

\* ------------------------------------------------------ SettlementService
\* `for _, person := range list { balances[person] -= share }`
RECURSIVE DebitEach(_, _, _)
DebitEach(bal, list, share) ==
  IF list = <<>> THEN bal
  ELSE DebitEach(Add(bal, Head(list), -share), Tail(list), share)

\* A share that divides the amount among one person too many.
SharePerPersonAmongOneMore(amount, n) == Round(amount, n + 1)

\* the share of one person in an amount divided among n
SharePerPerson(amount, n) == Round(amount, n)

\* An equal split that does not charge the payer a share of their own.
processEqualSplitExpenseSparingPayer(expense, bal) ==
  DebitEach(Add(bal, expense.PaidBy, expense.Amount),
            SelectSeq(expense.SplitAmong, LAMBDA p : p # expense.PaidBy),
            SharePerPerson(expense.Amount, Len(expense.SplitAmong)))

\* processEqualSplitExpense
processEqualSplitExpense(expense, bal) ==
  DebitEach(Add(bal, expense.PaidBy, expense.Amount), expense.SplitAmong,
            SharePerPerson(expense.Amount, Len(expense.SplitAmong)))

\* processItemSplitExpense, one iteration of `for _, item := range expense.Items`:
\* the balances after it
ItemBalances(item, bal) ==
  DebitEach(Add(bal, item.PaidBy, item.Amount), item.Consumers,
            SharePerPerson(item.Amount, Len(item.Consumers)))

\* ... and the personItemTotals after it (DebitEach with the share negated adds)
ItemTotals(item, totals) ==
  DebitEach(totals, item.Consumers,
            -SharePerPerson(item.Amount, Len(item.Consumers)))

\* findPrimaryPayer: the payers the range loop over payerCounts can end on, which
\* depends on the order of the loop when several payers hold the largest amount
PrimaryPayers(counts, recorded) ==
  LET top == {p \in DOMAIN counts :
                counts[p] > 0 /\ \A q \in DOMAIN counts : counts[q] <= counts[p]}
  IN IF top = {} THEN {recorded} ELSE top

\* the proportional share of the extra charges of a person with item total t
ExtraChargeShare(extraCharges, t, total) == Round(extraCharges * t, total)

\* `for person, itemTotal := range personItemTotals` in the order `order`
RECURSIVE DistributeExtra(_, _, _, _, _)
DistributeExtra(bal, order, totals, extraCharges, total) ==
  IF order = <<>> THEN bal
  ELSE DistributeExtra(
         Add(bal, Head(order), -ExtraChargeShare(extraCharges, totals[Head(order)], total)),
         Tail(order), totals, extraCharges, total)

RECURSIVE TotalAllocated(_, _, _, _)
TotalAllocated(order, totals, extraCharges, total) ==
  IF order = <<>> THEN 0
  ELSE ExtraChargeShare(extraCharges, totals[Head(order)], total)
       + TotalAllocated(Tail(order), totals, extraCharges, total)

\* A reconciliation that never finds a discrepancy.
RoundingDiffDropped(extraCharges, allocated) == 0

\* the rounding discrepancy charged to the last person of the loop
RoundingDiff(extraCharges, allocated) == Round(extraCharges - allocated, 1)

\* processItemSplitExpense, "Handle extra charges proportionally"
HandleExtraCharges(bal, extraCharges, totals, total, primaryPayer, order) ==
  IF extraCharges # 0 /\ total > 0
  THEN LET credited == Add(bal, primaryPayer, extraCharges)
           debited == DistributeExtra(credited, order, totals, extraCharges, total)
           diff == RoundingDiff(extraCharges, TotalAllocated(order, totals, extraCharges, total))
       IN IF diff # 0 /\ order # <<>>
          THEN Add(debited, order[Len(order)], -diff)
          ELSE debited
  ELSE bal

\* calculateBalances, "Round all balances"
RoundAll(bal) == [p \in DOMAIN bal |-> Round(bal[p], 1)]

\* extractCreditors: `if balance > 0`
IsCreditor(balance) == balance > 0

\* extractDebtors: `if balance < 0`
IsDebtor(balance) == balance < 0

\* extractCreditors, the range loop meeting the creditors in the order `order`
extractCreditors(bal, order) ==
  [x \in 1..Len(order) |-> [Person |-> order[x], Balance |-> bal[order[x]]]]

\* extractDebtors: the debt is stored as a positive amount
extractDebtors(bal, order) ==
  [x \in 1..Len(order) |-> [Person |-> order[x], Balance |-> -bal[order[x]]]]

\* An exchange that overwrites one entry and loses the other.
SwapOverwriting(s, x, y) == [s EXCEPT ![x] = s[y]]

\* slice[i], slice[j] = slice[j], slice[i]
Swap(s, x, y) == [s EXCEPT ![x] = s[y], ![y] = s[x]]

\* An inner loop that brings the smallest balance to the front.
RECURSIVE sortInnerAscending(_, _, _)
sortInnerAscending(s, x, y) ==
  IF y > Len(s) THEN s
  ELSE sortInnerAscending(IF s[x].Balance > s[y].Balance THEN Swap(s, x, y) ELSE s,
                          x, y + 1)

\* sortByBalance, the inner loop `for j := i + 1; j < len(slice); j++`
RECURSIVE sortInner(_, _, _)
sortInner(s, x, y) ==
  IF y > Len(s) THEN s
  ELSE sortInner(IF s[x].Balance < s[y].Balance THEN Swap(s, x, y) ELSE s, x, y + 1)

RECURSIVE sortOuter(_, _)
sortOuter(s, x) ==
  IF x > Len(s) THEN s ELSE sortOuter(sortInner(s, x, x + 1), x + 1)

\* sortByBalance
sortByBalance(slice) == sortOuter(slice, 1)

\* An iteration that transfers only half of what the pair can settle.
SettlementAmountHalved(creditorBalance, debtorBalance) ==
  Round(Min(creditorBalance, debtorBalance), 2)

\* An amount that pays the creditor in full whatever the debtor owes.
SettlementAmountOfCreditor(creditorBalance, debtorBalance) == Round(creditorBalance, 1)

\* generateSettlements: the amount of one iteration
SettlementAmount(creditorBalance, debtorBalance) ==
  Round(Min(creditorBalance, debtorBalance), 1)

\* A settlement that names the creditor as the one who pays.
NewSettlementReversed(debtor, creditor, amount) ==
  [From |-> creditor.Person, To |-> debtor.Person, Amount |-> amount]

\* generateSettlements: the settlement of one iteration
NewSettlement(debtor, creditor, amount) ==
  [From |-> debtor.Person, To |-> creditor.Person, Amount |-> amount]

\* A cursor that moves on whether or not the balance is settled.
AdvanceAlways(cursor, balance) == cursor + 1

\* A cursor that stays where it is whatever the balance.
AdvanceNever(cursor, balance) == cursor

\* generateSettlements: "Move to next creditor/debtor if balance is settled"
Advance(cursor, balance) == IF Round(balance, 1) = 0 THEN cursor + 1 ELSE cursor

\* ------------------------------------------------------------- the actions
NoItemState ==
  /\ personItemTotals' = EmptyMap
  /\ totalItemAmount' = 0
  /\ payerCounts' = EmptyMap
  /\ paidBy' = ""
  /\ nItems' = 0

NoSettleState ==
  /\ creditors' = <<>>
  /\ debtors' = <<>>
  /\ i' = 1
  /\ j' = 1
  /\ settlements' = <<>>

NoRequest == [Items |-> <<>>, Tax |-> 0, ServiceCharge |-> 0, TotalDiscount |-> 0]

NoResult == [Error |-> "none"]

NoExpense == [SplitType |-> "none"]

NoPayment == [Code |-> "", FromPerson |-> <<>>, ToPerson |-> <<>>, Amount |-> 0]

\* GetExpenses is not running
NotLoading == [Expense |-> 0, Item |-> 0]

\* the database holds nothing and no request to it is under way
NoStore ==
  /\ tripParticipants = {}
  /\ stored = <<>>
  /\ nextID = 0
  /\ fetched = <<>>
  /\ loading = NotLoading
  /\ adders = <<>>
  /\ payments = <<>>
  /\ paymentRequest = NoPayment
  /\ response = "none"

\* no single call is under study
NoCall ==
  /\ oneExpense = NoExpense
  /\ entry = <<>>
  /\ creditedPayer = ""
  /\ expenses = <<>>
  /\ reordered = <<>>
  /\ again = EmptyMap
  /\ NoStore

InitSettle ==
  /\ NoCall
  /\ request = NoRequest
  /\ result = NoResult
  /\ pc = "expenses"
  /\ balances = EmptyMap
  /\ nExpenses = 0
  /\ exactInput = TRUE
  /\ personItemTotals = EmptyMap
  /\ totalItemAmount = 0
  /\ payerCounts = EmptyMap
  /\ paidBy = ""
  /\ nItems = 0
  /\ creditors = <<>>
  /\ debtors = <<>>
  /\ i = 1
  /\ j = 1
  /\ settlements = <<>>

\* the next expense has no extras and divides evenly
ExactEqual(expense) ==
  /\ expense.Tax = 0 /\ expense.ServiceCharge = 0 /\ expense.TotalDiscount = 0
  /\ expense.Amount % (SubCent * Len(expense.SplitAmong)) = 0

ExactItem(item) == item.Amount % (SubCent * Len(item.Consumers)) = 0

\* calculateBalances: one iteration, case utils.SplitTypeEqual
ProcessEqualSplitExpense ==
  /\ UNCHANGED <<billVars, callVars, storeVars>>
  /\ pc = "expenses"
  /\ nExpenses < MaxExpenses
  /\ \E expense \in EqualExpenses :
       /\ balances' = processEqualSplitExpense(expense, balances)
       /\ exactInput' = (exactInput /\ ExactEqual(expense))
  /\ nExpenses' = nExpenses + 1
  /\ UNCHANGED <<pc, personItemTotals, totalItemAmount, payerCounts, paidBy, nItems,
                 creditors, debtors, i, j, settlements>>

\* calculateBalances: one iteration, case utils.SplitTypeItems, up to the item loop
StartItemSplitExpense ==
  /\ UNCHANGED <<billVars, callVars, storeVars>>
  /\ pc = "expenses"
  /\ nExpenses < MaxExpenses
  /\ pc' = "items"
  /\ NoItemState
  /\ UNCHANGED <<balances, nExpenses, exactInput, creditors, debtors, i, j, settlements>>

\* processItemSplitExpense: one iteration of the item loop
ProcessItem ==
  /\ UNCHANGED <<billVars, callVars, storeVars>>
  /\ pc = "items"
  /\ nItems < MaxItems
  /\ \E item \in StoredItems :
       /\ balances' = ItemBalances(item, balances)
       /\ personItemTotals' = ItemTotals(item, personItemTotals)
       /\ totalItemAmount' = totalItemAmount + item.Amount
       /\ payerCounts' = Add(payerCounts, item.PaidBy, item.Amount)
       /\ paidBy' = IF paidBy = "" THEN item.PaidBy ELSE paidBy
       /\ exactInput' = (exactInput /\ ExactItem(item))
  /\ nItems' = nItems + 1
  /\ UNCHANGED <<pc, nExpenses, creditors, debtors, i, j, settlements>>

\* processItemSplitExpense: after the item loop
FinishItemSplitExpense ==
  /\ UNCHANGED <<billVars, callVars, storeVars>>
  /\ pc = "items"
  /\ nItems >= 1
  /\ \E t \in 0..MaxTax, sc \in 0..MaxService, d \in 0..MaxDiscount :
       \* ExpenseService.CreateItemsExpense stores the rounded amounts
       LET tax == Round(t, 1)
           serviceCharge == Round(sc, 1)
           totalDiscount == Round(d, 1)
           extraCharges == tax + serviceCharge - totalDiscount
       IN \E primaryPayer \in PrimaryPayers(payerCounts, paidBy),
             order \in Orders(DOMAIN personItemTotals) :
            /\ balances' = HandleExtraCharges(balances, extraCharges, personItemTotals,
                                              totalItemAmount, primaryPayer, order)
            /\ exactInput' = (exactInput /\ tax = 0 /\ serviceCharge = 0 /\ totalDiscount = 0)
  /\ pc' = "expenses"
  /\ nExpenses' = nExpenses + 1
  /\ NoItemState
  /\ UNCHANGED <<creditors, debtors, i, j, settlements>>

\* CalculateSettlements: expenseService.GetExpenses fails, the error is returned
FailGetExpenses ==
  /\ UNCHANGED <<billVars, callVars, storeVars>>
  /\ pc = "expenses"
  /\ nExpenses = 0
  /\ pc' = "failed"
  /\ UNCHANGED <<balances, nExpenses, exactInput, personItemTotals, totalItemAmount,
                 payerCounts, paidBy, nItems, creditors, debtors, i, j, settlements>>

\* A return for the trip without expenses that lists every participant with 0.
ReturnEmptyWithZeroes ==
  /\ UNCHANGED <<billVars, callVars, storeVars>>
  /\ pc = "expenses"
  /\ nExpenses = 0
  /\ pc' = "empty"
  /\ settlements' = <<>>
  /\ balances' = [p \in Persons |-> 0]
  /\ UNCHANGED <<nExpenses, exactInput, personItemTotals, totalItemAmount,
                 payerCounts, paidBy, nItems, creditors, debtors, i, j>>

\* CalculateSettlements: `if len(tripExpenses) == 0` returns the empty result
ReturnEmpty ==
  /\ UNCHANGED <<billVars, callVars, storeVars>>
  /\ pc = "expenses"
  /\ nExpenses = 0
  /\ pc' = "empty"
  /\ settlements' = <<>>
  /\ balances' = EmptyMap
  /\ UNCHANGED <<nExpenses, exactInput, personItemTotals, totalItemAmount,
                 payerCounts, paidBy, nItems, creditors, debtors, i, j>>

\* calculateBalances: the expense loop ends, the balances are rounded and returned
ReturnBalances ==
  /\ UNCHANGED <<billVars, callVars, storeVars>>
  /\ pc = "expenses"
  /\ nExpenses >= 1
  /\ balances' = RoundAll(balances)
  /\ pc' = "balanced"
  /\ UNCHANGED <<nExpenses, exactInput, personItemTotals, totalItemAmount, payerCounts,
                 paidBy, nItems, creditors, debtors, i, j, settlements>>

\* calculateOptimalSettlements up to the call of generateSettlements
CalculateOptimalSettlements ==
  /\ UNCHANGED <<billVars, callVars, storeVars>>
  /\ pc = "balanced"
  /\ \E creditorOrder \in Orders({p \in DOMAIN balances : IsCreditor(balances[p])}),
        debtorOrder \in Orders({p \in DOMAIN balances : IsDebtor(balances[p])}) :
       /\ creditors' = sortByBalance(extractCreditors(balances, creditorOrder))
       /\ debtors' = sortByBalance(extractDebtors(balances, debtorOrder))
  /\ i' = 1
  /\ j' = 1
  /\ settlements' = <<>>
  /\ pc' = "settle"
  /\ UNCHANGED <<balances, nExpenses, exactInput, personItemTotals, totalItemAmount,
                 payerCounts, paidBy, nItems>>

\* generateSettlements: one iteration of the loop
GenerateSettlementsStep ==
  /\ UNCHANGED <<billVars, callVars, storeVars>>
  /\ pc = "settle"
  /\ i <= Len(creditors) /\ j <= Len(debtors)
  /\ LET creditor == creditors[i]
         debtor == debtors[j]
         amount == SettlementAmount(creditor.Balance, debtor.Balance)
     IN /\ settlements' = IF amount > 0
                          THEN Append(settlements, NewSettlement(debtor, creditor, amount))
                          ELSE settlements
        /\ creditors' = [creditors EXCEPT ![i].Balance = @ - amount]
        /\ debtors' = [debtors EXCEPT ![j].Balance = @ - amount]
        /\ i' = Advance(i, creditor.Balance - amount)
        /\ j' = Advance(j, debtor.Balance - amount)
  /\ UNCHANGED <<pc, balances, nExpenses, exactInput, personItemTotals, totalItemAmount,
                 payerCounts, paidBy, nItems>>

\* generateSettlements: the loop condition fails, the settlements are returned
ReturnSettlements ==
  /\ UNCHANGED <<billVars, callVars, storeVars>>
  /\ pc = "settle"
  /\ ~(i <= Len(creditors) /\ j <= Len(debtors))
  /\ pc' = "done"
  /\ UNCHANGED <<balances, nExpenses, exactInput, personItemTotals, totalItemAmount,
                 payerCounts, paidBy, nItems, creditors, debtors, i, j, settlements>>

\* ----------------------------------------------------- CalculationService
\* the payer of a bill item is validated and normalized but takes no part in the
\* calculation: one name stands for all
Payers == {PersonOrder[1]}

\* the items of a CalculateSingleBill request
BillItems ==
  [Description : {"item"}, UnitPrice : 1..MaxPrice, Quantity : 1..MaxQuantity,
   ItemDiscount : 0..MaxItemDiscount, PaidBy : Payers, Consumers : NameLists]

\* the CalculateSingleBill requests, the request without items among them
Requests ==
  [Items : UNION {[1..n -> BillItems] : n \in 0..MaxItems},
   Tax : 0..MaxTax, ServiceCharge : 0..MaxService, TotalDiscount : 0..MaxDiscount]

\* utils.ValidateParticipantNames: the 1-based position of the first blank name
FirstBlank(names) ==
  CHOOSE x \in DOMAIN names : names[x] = "" /\ \A y \in 1..(x - 1) : names[y] # ""

\* A validation that lets an item of price 0 pass.
ItemErrorAllowingFree(item) ==
  IF item.Description = "" THEN "item description is required"
  ELSE IF item.UnitPrice < 0 THEN "item price must be positive"
  ELSE IF item.Quantity <= 0 THEN "item quantity must be positive"
  ELSE IF item.PaidBy = "" THEN "item paidBy is required"
  ELSE IF Len(item.Consumers) = 0 THEN "item consumers cannot be empty"
  ELSE IF \E x \in DOMAIN item.Consumers : item.Consumers[x] = ""
       THEN "participant " \o ToString(FirstBlank(item.Consumers)) \o " name cannot be empty"
  ELSE ""

\* utils.ValidateItemData and the three checks that follow it in
\* validateCalculationRequest: "" when the item passes
ItemError(item) ==
  IF item.Description = "" THEN "item description is required"
  ELSE IF item.UnitPrice <= 0 THEN "item price must be positive"
  ELSE IF item.Quantity <= 0 THEN "item quantity must be positive"
  ELSE IF item.PaidBy = "" THEN "item paidBy is required"
  ELSE IF Len(item.Consumers) = 0 THEN "item consumers cannot be empty"
  ELSE IF \E x \in DOMAIN item.Consumers : item.Consumers[x] = ""
       THEN "participant " \o ToString(FirstBlank(item.Consumers)) \o " name cannot be empty"
  ELSE ""

\* validateCalculationRequest: the error it returns, [Error |-> "none"] for nil
validateCalculationRequest(req) ==
  IF Len(req.Items) = 0 THEN [Error |-> "items cannot be empty"]
  ELSE IF req.Tax < 0 THEN [Error |-> "tax cannot be negative"]
  ELSE IF req.ServiceCharge < 0 THEN [Error |-> "service charge cannot be negative"]
  ELSE IF req.TotalDiscount < 0 THEN [Error |-> "discount cannot be negative"]
  ELSE IF \E x \in DOMAIN req.Items : ItemError(req.Items[x]) # ""
       THEN LET first == CHOOSE x \in DOMAIN req.Items :
                           /\ ItemError(req.Items[x]) # ""
                           /\ \A y \in 1..(x - 1) : ItemError(req.Items[y]) = ""
            IN [Error |-> ItemError(req.Items[first]), Item |-> first]
  ELSE [Error |-> "none"]

\* extractParticipants: every consumer of every item
extractParticipants(items) == UNION {Range(items[x].Consumers) : x \in DOMAIN items}

\* calculateSubtotal: the sum of the item amounts, not rounded
RECURSIVE calculateSubtotal(_)
calculateSubtotal(items) ==
  IF items = <<>> THEN 0
  ELSE Head(items).UnitPrice * Head(items).Quantity - Head(items).ItemDiscount
       + calculateSubtotal(Tail(items))

ZeroBreakdown == [Subtotal |-> 0, Tax |-> 0, ServiceCharge |-> 0, Discount |-> 0, Total |-> 0]

\* calculatePersonalCharges: itemAmount, rounded
ItemAmount(item) == Round(item.UnitPrice * item.Quantity - item.ItemDiscount, 1)

\* calculatePersonalCharges: the breakdown of one consumer takes one share
AddSubtotalOnly(b, share) == [b EXCEPT !.Subtotal = @ + share]

AddShare(b, share) == [b EXCEPT !.Subtotal = @ + share, !.Total = @ + share]

\* `for _, consumer := range item.Consumers`
RECURSIVE ShareAmong(_, _, _)
ShareAmong(breakdown, consumers, share) ==
  IF consumers = <<>> THEN breakdown
  ELSE LET c == Head(consumers)
           b == IF c \in DOMAIN breakdown THEN breakdown[c] ELSE ZeroBreakdown
       IN ShareAmong([x \in DOMAIN breakdown \cup {c} |->
                        IF x = c THEN AddShare(b, share) ELSE breakdown[x]],
                     Tail(consumers), share)

\* `for _, item := range items`: each person's share of items
RECURSIVE ShareItems(_, _)
ShareItems(breakdown, items) ==
  IF items = <<>> THEN breakdown
  ELSE LET item == Head(items)
       IN ShareItems(
            IF Len(item.Consumers) > 0
            THEN ShareAmong(breakdown, item.Consumers,
                            SharePerPerson(ItemAmount(item), Len(item.Consumers)))
            ELSE breakdown,
            Tail(items))

\* Round(amount * proportion) with proportion = subtotal / totalSubtotal, by cutting
\* the fraction off instead of rounding
PersonExtraTruncated(amount, subtotal, totalSubtotal) ==
  RoundTruncating(amount * subtotal, totalSubtotal)

\* Round(amount * proportion) with proportion = subtotal / totalSubtotal
PersonExtra(amount, subtotal, totalSubtotal) == Round(amount * subtotal, totalSubtotal)

\* the breakdown of a person when totalSubtotal > 0: the total rounds the sum of the
\* unrounded proportional parts
Proportional(b, tax, serviceCharge, totalDiscount, totalSubtotal) ==
  [Subtotal |-> b.Subtotal,
   Tax |-> PersonExtra(tax, b.Subtotal, totalSubtotal),
   ServiceCharge |-> PersonExtra(serviceCharge, b.Subtotal, totalSubtotal),
   Discount |-> PersonExtra(totalDiscount, b.Subtotal, totalSubtotal),
   Total |-> Round(b.Subtotal * totalSubtotal
                   + (tax + serviceCharge - totalDiscount) * b.Subtotal, totalSubtotal)]

\* the breakdown of a person when totalSubtotal = 0: the extras are divided equally
EqualExtras(tax, serviceCharge, totalDiscount, n) ==
  [Subtotal |-> 0,
   Tax |-> Round(tax, n),
   ServiceCharge |-> Round(serviceCharge, n),
   Discount |-> Round(totalDiscount, n),
   Total |-> Round(Round(tax + serviceCharge - totalDiscount, n), 1)]

\* "Round all values in the breakdown"
RoundBreakdown(b) ==
  [Subtotal |-> Round(b.Subtotal, 1), Tax |-> Round(b.Tax, 1),
   ServiceCharge |-> Round(b.ServiceCharge, 1), Discount |-> Round(b.Discount, 1),
   Total |-> Round(b.Total, 1)]

\* calculatePersonalCharges: (charges, breakdown)
calculatePersonalCharges(items, tax, serviceCharge, totalDiscount, participants) ==
  LET shared == ShareItems([p \in participants |-> ZeroBreakdown], items)
      totalSubtotal == SumOver([p \in DOMAIN shared |-> shared[p].Subtotal], participants)
      n == Cardinality(participants)
      extras ==
        IF totalSubtotal > 0 /\ n > 0
        THEN [p \in DOMAIN shared |->
                IF p \in participants
                THEN Proportional(shared[p], tax, serviceCharge, totalDiscount, totalSubtotal)
                ELSE shared[p]]
        ELSE IF totalSubtotal = 0 /\ n > 0
        THEN [p \in DOMAIN shared |->
                IF p \in participants
                THEN EqualExtras(tax, serviceCharge, totalDiscount, n)
                ELSE shared[p]]
        ELSE shared
      charges ==
        IF totalSubtotal > 0 /\ n > 0
        THEN [p \in participants |-> extras[p].Total]
        ELSE IF totalSubtotal = 0 /\ n > 0
        THEN [p \in participants |-> Round(tax + serviceCharge - totalDiscount, n)]
        ELSE [p \in participants |-> 0]
  IN [Charges |-> charges,
      Breakdown |-> [p \in DOMAIN extras |-> RoundBreakdown(extras[p])]]

\* CalculateSingleBill, after the validation
CalculateSingleBill(req) ==
  LET items == req.Items  \* normalizeItemNames: the names are normalized already
      participants == extractParticipants(items)
      personal == calculatePersonalCharges(items, req.Tax, req.ServiceCharge,
                                           req.TotalDiscount, participants)
      subtotal == calculateSubtotal(items)
      total == subtotal + req.Tax + req.ServiceCharge - req.TotalDiscount
  IN [Error |-> "none",
      Amount |-> Round(total, 1),
      Subtotal |-> Round(subtotal, 1),
      Tax |-> Round(req.Tax, 1),
      ServiceCharge |-> Round(req.ServiceCharge, 1),
      TotalDiscount |-> Round(req.TotalDiscount, 1),
      PerPersonCharges |-> personal.Charges,
      PerPersonBreakdown |-> personal.Breakdown]

InitBill ==
  /\ NoCall
  /\ pc = "request"
  /\ request \in Requests
  /\ result = NoResult
  /\ balances = EmptyMap
  /\ nExpenses = 0
  /\ exactInput = FALSE
  /\ personItemTotals = EmptyMap
  /\ totalItemAmount = 0
  /\ payerCounts = EmptyMap
  /\ paidBy = ""
  /\ nItems = 0
  /\ creditors = <<>>
  /\ debtors = <<>>
  /\ i = 1
  /\ j = 1
  /\ settlements = <<>>

\* CalculateSingleBill: the request fails the validation, the error is returned
RejectRequest ==
  /\ pc = "request"
  /\ validateCalculationRequest(request).Error # "none"
  /\ result' = validateCalculationRequest(request)
  /\ pc' = "rejected"
  /\ UNCHANGED <<request, settleVars, callVars, storeVars>>

\* CalculateSingleBill: the request passes the validation
AcceptRequest ==
  /\ pc = "request"
  /\ validateCalculationRequest(request).Error = "none"
  /\ pc' = "validated"
  /\ UNCHANGED <<request, result, settleVars, callVars, storeVars>>

\* CalculateSingleBill: the calculation is made and returned
ReturnBill ==
  /\ pc = "validated"
  /\ result' = CalculateSingleBill(request)
  /\ pc' = "returned"
  /\ UNCHANGED <<request, settleVars, callVars, storeVars>>

NextBill ==
  \/ RejectRequest
  \/ AcceptRequest
  \/ ReturnBill

vars == <<pc, settleVars, billVars, callVars, storeVars>>

Init == InitSettle

\* SettlementService.CalculateSettlements on the expenses of one trip
Next ==
  \/ ProcessEqualSplitExpense
  \/ StartItemSplitExpense
  \/ ProcessItem
  \/ FinishItemSplitExpense
  \/ FailGetExpenses
  \/ ReturnEmpty
  \/ ReturnBalances
  \/ CalculateOptimalSettlements
  \/ GenerateSettlementsStep
  \/ ReturnSettlements

Spec == Init /\ [][Next]_vars

\* ------------------------------------- calculateOptimalSettlements alone
\* the cent-quantized balance maps over SettlePersons within MaxBalance cents
BalanceMaps == [SettlePersons -> {SubCent * b : b \in (-MaxBalance)..MaxBalance}]

InitOptimal ==
  /\ NoCall
  /\ request = NoRequest
  /\ result = NoResult
  /\ pc = "balanced"
  /\ balances \in BalanceMaps
  /\ nExpenses = 0
  /\ exactInput = FALSE
  /\ personItemTotals = EmptyMap
  /\ totalItemAmount = 0
  /\ payerCounts = EmptyMap
  /\ paidBy = ""
  /\ nItems = 0
  /\ creditors = <<>>
  /\ debtors = <<>>
  /\ i = 1
  /\ j = 1
  /\ settlements = <<>>

NextOptimal ==
  \/ CalculateOptimalSettlements
  \/ GenerateSettlementsStep
  \/ ReturnSettlements

SpecOptimal == InitOptimal /\ [][NextOptimal]_vars

\* ------------------------------------------------- CalculateSingleBill alone
SpecBill == InitBill /\ [][NextBill]_vars

\* ---------------------------------------- one expense processed alone
\* models.NewItemExpense
NewItemExpense(subtotal, tax, serviceCharge, totalDiscount, payer, items) ==
  [Amount |-> subtotal + tax + serviceCharge - totalDiscount,
   Subtotal |-> subtotal, Tax |-> tax, ServiceCharge |-> serviceCharge,
   TotalDiscount |-> totalDiscount, PaidBy |-> payer,
   SplitType |-> "items", Items |-> items]

RECURSIVE SumAmounts(_)
SumAmounts(items) ==
  IF items = <<>> THEN 0 ELSE Head(items).Amount + SumAmounts(Tail(items))

\* ExpenseService.CreateItemsExpense on the items processExpenseItems returned: the
\* recorded payer is the payer of the first item
CreateItemsExpense(items, tax, serviceCharge, totalDiscount) ==
  NewItemExpense(Round(SumAmounts(items), 1), Round(tax, 1), Round(serviceCharge, 1),
                 Round(totalDiscount, 1), items[1].PaidBy, items)

\* the item lists of an itemized expense of a trip, n items long
ItemLists(n) == [1..n -> StoredItems]

\* processItemSplitExpense, `for _, item := range expense.Items`: the balances, the
\* personItemTotals and the payerCounts of findPrimaryPayer after the loop
RECURSIVE processItems(_, _)
processItems(items, bal) ==
  IF items = <<>> THEN bal ELSE processItems(Tail(items), ItemBalances(Head(items), bal))

RECURSIVE itemTotals(_, _)
itemTotals(items, totals) ==
  IF items = <<>> THEN totals ELSE itemTotals(Tail(items), ItemTotals(Head(items), totals))

RECURSIVE paidAmounts(_, _)
paidAmounts(items, counts) ==
  IF items = <<>> THEN counts
  ELSE paidAmounts(Tail(items), Add(counts, Head(items).PaidBy, Head(items).Amount))

\* A condition that lets every itemized expense into the extra-charge handling.
HasExtraChargesAlways(e) == TRUE

\* processItemSplitExpense: `extraCharges != 0 && totalItemAmount > 0`
HasExtraCharges(e) ==
  /\ e.Tax + e.ServiceCharge - e.TotalDiscount # 0
  /\ SumAmounts(e.Items) > 0

\* processItemSplitExpense, when findPrimaryPayer returns `payer` and the loop over
\* personItemTotals runs in the order `order`
processItemSplitExpense(e, bal, payer, order) ==
  HandleExtraCharges(processItems(e.Items, bal), e.Tax + e.ServiceCharge - e.TotalDiscount,
                     itemTotals(e.Items, EmptyMap), SumAmounts(e.Items), payer, order)

\* the balance maps a call can find: the empty one and one that holds everybody
EntryBalances ==
  {EmptyMap,
   [p \in Persons |-> IF p = PersonOrder[1] THEN SubCent * MaxBalance
                                            ELSE -(SubCent * MaxBalance)]}

\* everything but the expense is as at the call
AtCall ==
  /\ pc = "expense"
  /\ entry \in EntryBalances
  /\ balances = entry
  /\ creditedPayer = ""
  /\ expenses = <<>>
  /\ reordered = <<>>
  /\ again = EmptyMap
  /\ NoStore
  /\ request = NoRequest
  /\ result = NoResult
  /\ nExpenses = 0
  /\ exactInput = FALSE
  /\ personItemTotals = EmptyMap
  /\ totalItemAmount = 0
  /\ payerCounts = EmptyMap
  /\ paidBy = ""
  /\ nItems = 0
  /\ creditors = <<>>
  /\ debtors = <<>>
  /\ i = 1
  /\ j = 1
  /\ settlements = <<>>

InitEqualSplit == oneExpense \in EqualExpenses /\ AtCall

InitItemSplit ==
  /\ \E n \in 1..MaxItems :
       \E items \in ItemLists(n), t \in 0..MaxTax, sc \in 0..MaxService,
          d \in 0..MaxDiscount :
         oneExpense = CreateItemsExpense(items, t, sc, d)
  /\ AtCall

\* calculateBalances, case utils.SplitTypeEqual, for the one expense
ApplyEqualSplitExpense ==
  /\ pc = "expense"
  /\ oneExpense.SplitType = "equal"
  /\ balances' = processEqualSplitExpense(oneExpense, balances)
  /\ pc' = "processed"
  /\ UNCHANGED <<nExpenses, exactInput, personItemTotals, totalItemAmount, payerCounts,
                 paidBy, nItems, creditors, debtors, i, j, settlements, billVars,
                 callVars, storeVars>>

\* calculateBalances, case utils.SplitTypeItems, for the one expense
ApplyItemSplitExpense ==
  /\ pc = "expense"
  /\ oneExpense.SplitType = "items"
  /\ personItemTotals' = itemTotals(oneExpense.Items, EmptyMap)
  /\ totalItemAmount' = SumAmounts(oneExpense.Items)
  /\ \E order \in Orders(DOMAIN itemTotals(oneExpense.Items, EmptyMap)) :
       IF HasExtraCharges(oneExpense)
       THEN \E payer \in PrimaryPayers(paidAmounts(oneExpense.Items, EmptyMap),
                                       oneExpense.PaidBy) :
              /\ balances' = processItemSplitExpense(oneExpense, balances, payer, order)
              /\ creditedPayer' = payer
       ELSE /\ balances' = processItems(oneExpense.Items, balances)
            /\ creditedPayer' = ""
  /\ pc' = "processed"
  /\ UNCHANGED <<nExpenses, exactInput, payerCounts, paidBy, nItems, creditors, debtors,
                 i, j, settlements, billVars, oneExpense, entry, expenses, reordered,
                 again, storeVars>>

\* processEqualSplitExpense alone
SpecEqualSplit == InitEqualSplit /\ [][ApplyEqualSplitExpense]_vars

\* processItemSplitExpense alone
SpecItemSplit == InitItemSplit /\ [][ApplyItemSplitExpense]_vars

\* ------------------------------------------- validateCalculationRequest
\* items that pass the validation and items that fail each of its checks
UncheckedItems ==
  [Description : {"", "item"}, UnitPrice : (-1)..1, Quantity : 0..1, ItemDiscount : {0},
   PaidBy : {"", PersonOrder[1]},
   Consumers : {<<>>, <<PersonOrder[1]>>, <<PersonOrder[1], "">>,
                <<PersonOrder[1], PersonOrder[2]>>}]

\* the requests made of them, with extras that pass and extras that fail
UncheckedRequests ==
  [Items : UNION {[1..n -> UncheckedItems] : n \in 0..MaxItems},
   Tax : {-1, 0, MaxTax}, ServiceCharge : {-1, 0, MaxService},
   TotalDiscount : {-1, 0, MaxDiscount}]

InitUnchecked ==
  /\ pc = "request"
  /\ request \in UncheckedRequests
  /\ result = NoResult
  /\ NoCall
  /\ balances = EmptyMap
  /\ nExpenses = 0
  /\ exactInput = FALSE
  /\ personItemTotals = EmptyMap
  /\ totalItemAmount = 0
  /\ payerCounts = EmptyMap
  /\ paidBy = ""
  /\ nItems = 0
  /\ creditors = <<>>
  /\ debtors = <<>>
  /\ i = 1
  /\ j = 1
  /\ settlements = <<>>

\* CalculateSingleBill on requests that need not be valid
SpecUnchecked == InitUnchecked /\ [][NextBill]_vars

\* ------------------------------------------- calculateBalances called twice
\* the expenses of the expense lists that are walked twice: equal splits with a tax,
\* and itemized expenses with a tax whose items all have the same price
ComparedEqualExpenses ==
  {CreateEqualExpense(s, t, 0, 0, p, l) :
     s \in 1..MaxSubtotal, t \in 0..MaxTax, p \in Persons, l \in DistinctNameLists}

ComparedItems ==
  {ProcessedItem(MaxPrice, 1, 0, p, l) : p \in Persons, l \in DistinctNameLists}

ComparedItemExpenses ==
  {CreateItemsExpense(items, t, 0, 0) :
     items \in UNION {[1..n -> ComparedItems] : n \in 1..MaxItems}, t \in 0..MaxTax}

ComparedExpenses == ComparedEqualExpenses \cup ComparedItemExpenses

\* calculateBalances, one iteration of the loop over the expenses: the balance maps
\* it can leave, one for each primary payer and each order of the map loops
processExpense(e, bal) ==
  IF e.SplitType = "equal" THEN {processEqualSplitExpense(e, bal)}
  ELSE IF HasExtraCharges(e)
       THEN {processItemSplitExpense(e, bal, payer, order) :
               payer \in PrimaryPayers(paidAmounts(e.Items, EmptyMap), e.PaidBy),
               order \in Orders(DOMAIN itemTotals(e.Items, EmptyMap))}
       ELSE {processItems(e.Items, bal)}

\* calculateBalances, the loop over the expenses
RECURSIVE walkExpenses(_, _)
walkExpenses(list, bals) ==
  IF list = <<>> THEN bals
  ELSE walkExpenses(Tail(list), UNION {processExpense(Head(list), b) : b \in bals})

\* calculateBalances: the balance maps a call can return
calculateBalances(list) == {RoundAll(b) : b \in walkExpenses(list, {EmptyMap})}

\* the orders in which a list of expenses can be handed over
Reorderings(list) ==
  {[x \in DOMAIN list |-> list[o[x]]] : o \in Orders(DOMAIN list)}

InitBalances ==
  /\ pc = "calls"
  /\ expenses \in UNION {[1..n -> ComparedExpenses] : n \in 1..MaxExpenses}
  /\ reordered = <<>>
  /\ again = EmptyMap
  /\ NoStore
  /\ oneExpense = NoExpense
  /\ entry = <<>>
  /\ creditedPayer = ""
  /\ request = NoRequest
  /\ result = NoResult
  /\ balances = EmptyMap
  /\ nExpenses = 0
  /\ exactInput = FALSE
  /\ personItemTotals = EmptyMap
  /\ totalItemAmount = 0
  /\ payerCounts = EmptyMap
  /\ paidBy = ""
  /\ nItems = 0
  /\ creditors = <<>>
  /\ debtors = <<>>
  /\ i = 1
  /\ j = 1
  /\ settlements = <<>>

\* calculateBalances(expenses)
CalculateBalancesOnce ==
  /\ pc = "calls"
  /\ balances' \in calculateBalances(expenses)
  /\ pc' = "once"
  /\ UNCHANGED <<nExpenses, exactInput, personItemTotals, totalItemAmount, payerCounts,
                 paidBy, nItems, creditors, debtors, i, j, settlements, billVars,
                 callVars, storeVars>>

\* calculateBalances again, on the same expenses in the same or in another order
CalculateBalancesAgain ==
  /\ pc = "once"
  /\ \E list \in Reorderings(expenses) :
       /\ reordered' = list
       /\ again' \in calculateBalances(list)
  /\ pc' = "twice"
  /\ UNCHANGED <<balances, nExpenses, exactInput, personItemTotals, totalItemAmount,
                 payerCounts, paidBy, nItems, creditors, debtors, i, j, settlements,
                 billVars, oneExpense, entry, creditedPayer, expenses, storeVars>>

NextBalances ==
  \/ CalculateBalancesOnce
  \/ CalculateBalancesAgain

SpecBalances == InitBalances /\ [][NextBalances]_vars

\* ----------------------------------------------------------------- claims
Returned == pc \in {"balanced", "settle", "done"}

\* C1 (as claimed): the balance map returned by calculateBalances sums to exactly 0.
C1_BalancesSumToZero == Returned => SumMap(balances) = 0

\* C2: when every expense walked had tax = serviceCharge = totalDiscount = 0 and only
\* amounts that are whole cents divisible by the number of people they are split
\* among, the balance map returned by calculateBalances sums to exactly 0.
C2_ZeroSumWhenExact == (Returned /\ exactInput) => SumMap(balances) = 0

\* C2 witness: two such expenses were walked and somebody owes money
C2_Witness ==
  /\ pc = "balanced" /\ exactInput /\ nExpenses = 2
  /\ \E p \in DOMAIN balances : balances[p] < 0

\* what p received, and what p paid, in the settlements
RECURSIVE ReceivedBy(_, _)
ReceivedBy(p, s) ==
  IF s = <<>> THEN 0
  ELSE (IF Head(s).To = p THEN Head(s).Amount ELSE 0) + ReceivedBy(p, Tail(s))

RECURSIVE PaidOutBy(_, _)
PaidOutBy(p, s) ==
  IF s = <<>> THEN 0
  ELSE (IF Head(s).From = p THEN Head(s).Amount ELSE 0) + PaidOutBy(p, Tail(s))

\* the balance of p once every settlement is applied: creditor -= amount,
\* debtor += amount
AfterSettlements(p) ==
  balances[p] - ReceivedBy(p, settlements) + PaidOutBy(p, settlements)

\* C3 (as claimed): applying the emitted settlements to the balance map of the
\* Balance Aggregator leaves every balance within one cent of zero.
C3_SettledWithinOneCent ==
  pc = "done" => \A p \in DOMAIN balances : Abs(AfterSettlements(p)) <= SubCent

\* k or fewer transfers, each of whole cents from a debtor in D to a creditor in C,
\* bring every balance of bal to zero
RECURSIVE ZeroableIn(_, _, _, _)
ZeroableIn(bal, k, D, C) ==
  \/ \A p \in DOMAIN bal : bal[p] = 0
  \/ /\ k > 0
     /\ \E d \in D, c \in C, a \in 1..MaxBalance :
          ZeroableIn([bal EXCEPT ![d] = @ + SubCent * a, ![c] = @ - SubCent * a], k - 1, D, C)

\* C4 (as claimed): for a balance map that sums to zero, no set of transfers that
\* zeroes every balance has fewer transfers than the list calculateOptimalSettlements
\* returns.
C4_FewestTransfers ==
  (pc = "done" /\ SumMap(balances) = 0 /\ Len(settlements) > 0)
    => ~ZeroableIn(balances, Len(settlements) - 1,
                   {p \in DOMAIN balances : balances[p] < 0},
                   {p \in DOMAIN balances : balances[p] > 0})

NonZero == Cardinality({p \in DOMAIN balances : balances[p] # 0})

\* C5 (as claimed): the number of settlements emitted is at most the number of
\* persons with a nonzero balance, minus 1.
C5_AtMostNonZeroMinusOne == pc = "done" => Len(settlements) <= NonZero - 1

\* C5 (amended): the number of settlements emitted is at most the number of persons
\* with a nonzero balance minus 1, and is 0 when nobody has a nonzero balance.
C5_AtMostNonZeroMinusOneOrNone ==
  pc = "done" => Len(settlements) <= (IF NonZero = 0 THEN 0 ELSE NonZero - 1)

\* C5 witness: five unbalanced persons settled with exactly four transfers
C5_Witness == pc = "done" /\ NonZero = 5 /\ Len(settlements) = 4

\* the sum over every person of one field of the returned breakdown
SumSubtotals ==
  SumMap([p \in DOMAIN result.PerPersonBreakdown |-> result.PerPersonBreakdown[p].Subtotal])

SumTotals ==
  SumMap([p \in DOMAIN result.PerPersonBreakdown |-> result.PerPersonBreakdown[p].Total])

\* C6 (as claimed): the per-person totals of the breakdown sum exactly to the bill
\* amount, subtotal + tax + serviceCharge - totalDiscount.
C6_TotalsSumToAmount == pc = "returned" => SumTotals = result.Amount

\* every item amount of the request divides evenly among the item's consumers
DividesEvenly ==
  \A x \in DOMAIN request.Items :
    Round(request.Items[x].UnitPrice * request.Items[x].Quantity
          - request.Items[x].ItemDiscount, 1)
      % (SubCent * Len(request.Items[x].Consumers)) = 0

\* C7 (as claimed): when every item amount divides evenly among its consumers, the
\* per-person Subtotals sum to the sum of the item amounts, the result's Subtotal.
C7_SubtotalsConserved ==
  (pc = "returned" /\ DividesEvenly) => SumSubtotals = result.Subtotal

\* r is n/d rounded to whole cents, halves away from zero (d > 0)
IsRounded(r, n, d) ==
  /\ r % SubCent = 0
  /\ IF n >= 0
     THEN 2 * r * d <= 2 * n + SubCent * d /\ 2 * n + SubCent * d < 2 * (r + SubCent) * d
     ELSE 2 * (r - SubCent) * d < 2 * n - SubCent * d /\ 2 * n - SubCent * d <= 2 * r * d

\* C8: when the sum S of the per-person subtotals is positive, a participant with
\* subtotal s gets tax = tax * s / S, serviceCharge = serviceCharge * s / S and
\* discount = totalDiscount * s / S, each rounded to the cent.
C8_ProportionalExtras ==
  (pc = "returned" /\ SumSubtotals > 0) =>
    \A p \in DOMAIN result.PerPersonBreakdown :
      LET b == result.PerPersonBreakdown[p]
      IN /\ IsRounded(b.Tax, request.Tax * b.Subtotal, SumSubtotals)
         /\ IsRounded(b.ServiceCharge, request.ServiceCharge * b.Subtotal, SumSubtotals)
         /\ IsRounded(b.Discount, request.TotalDiscount * b.Subtotal, SumSubtotals)

\* C8 witness: two consumers with equal subtotals share a tax and a service charge
\* and get the same, non-zero, part of each
C8_Witness ==
  /\ pc = "returned" /\ request.Tax > 0 /\ request.ServiceCharge > 0
  /\ DOMAIN result.PerPersonBreakdown = Persons
  /\ \A p, q \in Persons :
       /\ result.PerPersonBreakdown[p].Subtotal = result.PerPersonBreakdown[q].Subtotal
       /\ result.PerPersonBreakdown[p].Tax = result.PerPersonBreakdown[q].Tax
       /\ result.PerPersonBreakdown[p].Tax > 0
       /\ result.PerPersonBreakdown[p].Subtotal > 0

\* C9 (as claimed): every returned breakdown has
\* total = subtotal + tax + serviceCharge - discount on its cent-rounded fields.
C9_TotalIsSumOfFields ==
  pc = "returned" =>
    \A p \in DOMAIN result.PerPersonBreakdown :
      LET b == result.PerPersonBreakdown[p]
      IN b.Total = b.Subtotal + b.Tax + b.ServiceCharge - b.Discount

\* how often p is listed in a consumer list
Count(p, list) == Cardinality({x \in DOMAIN list : list[x] = p})

\* the sum, over the items p consumed, of round(itemAmount / number of consumers); an
\* item that lists p more than once counts once for each listing
RECURSIVE ShareSum(_, _)
ShareSum(p, items) ==
  IF items = <<>> THEN 0
  ELSE Count(p, Head(items).Consumers)
         * Round(Round(Head(items).UnitPrice * Head(items).Quantity
                       - Head(items).ItemDiscount, 1),
                 Len(Head(items).Consumers))
       + ShareSum(p, Tail(items))

\* C10: with tax = serviceCharge = totalDiscount = 0, every person's Total equals
\* that person's Subtotal, and the Subtotal is the sum over the items the person
\* consumed of round(itemAmount / number of consumers).
C10_NoExtras ==
  (pc = "returned" /\ request.Tax = 0 /\ request.ServiceCharge = 0
     /\ request.TotalDiscount = 0) =>
    \A p \in DOMAIN result.PerPersonBreakdown :
      /\ result.PerPersonBreakdown[p].Total = result.PerPersonBreakdown[p].Subtotal
      /\ result.PerPersonBreakdown[p].Subtotal = ShareSum(p, request.Items)

\* C10 witness: a bill without extras, two items, a person who consumed both and
\* another who consumed one
C10_Witness ==
  /\ pc = "returned" /\ request.Tax = 0 /\ request.ServiceCharge = 0
  /\ request.TotalDiscount = 0 /\ Len(request.Items) = 2
  /\ DOMAIN result.PerPersonBreakdown = Persons
  /\ \E p, q \in Persons :
       /\ Count(p, request.Items[1].Consumers) > 0
       /\ Count(p, request.Items[2].Consumers) > 0
       /\ Count(q, request.Items[1].Consumers) = 0
       /\ result.PerPersonBreakdown[p].Subtotal > result.PerPersonBreakdown[q].Subtotal
       /\ result.PerPersonBreakdown[q].Subtotal > 0

\* C11: processing one equal-split expense adds the expense amount to the payer's
\* balance and subtracts round(amount / len(splitAmong)) from the balance of every
\* person in splitAmong, once for each time the person is listed, and changes no other
\* balance; a payer who is listed once in splitAmong ends with amount minus one share.
C11_EqualSplitEffect ==
  (pc = "processed" /\ oneExpense.SplitType = "equal") =>
    LET share == Round(oneExpense.Amount, Len(oneExpense.SplitAmong))
        paid(p) == IF p = oneExpense.PaidBy THEN oneExpense.Amount ELSE 0
    IN /\ DOMAIN balances
            = DOMAIN entry \cup {oneExpense.PaidBy} \cup Range(oneExpense.SplitAmong)
       /\ \A p \in DOMAIN balances :
            balances[p] = Get(entry, p) + paid(p) - Count(p, oneExpense.SplitAmong) * share
       /\ Count(oneExpense.PaidBy, oneExpense.SplitAmong) = 1 =>
            balances[oneExpense.PaidBy]
              = Get(entry, oneExpense.PaidBy) + oneExpense.Amount - share

\* C11 witness: an expense of a positive amount split between its payer and another
\* person, processed on a balance map that already holds both
C11_Witness ==
  /\ pc = "processed" /\ oneExpense.SplitType = "equal"
  /\ oneExpense.Amount > 0 /\ entry # EmptyMap
  /\ Len(oneExpense.SplitAmong) = 2
  /\ Count(oneExpense.PaidBy, oneExpense.SplitAmong) = 1
  /\ balances[oneExpense.PaidBy] > entry[oneExpense.PaidBy]
  /\ \E p \in Persons : p # oneExpense.PaidBy /\ balances[p] < entry[p]

\* an item that a check of validateCalculationRequest turns down
FailsCheck(item) ==
  \/ item.Description = ""
  \/ item.UnitPrice <= 0
  \/ item.Quantity <= 0
  \/ item.PaidBy = ""
  \/ Len(item.Consumers) = 0
  \/ \E x \in DOMAIN item.Consumers : item.Consumers[x] = ""

\* the request has one of the defects the claim lists
Offending ==
  \/ Len(request.Items) = 0
  \/ request.Tax < 0 \/ request.ServiceCharge < 0 \/ request.TotalDiscount < 0
  \/ \E x \in DOMAIN request.Items :
       \/ request.Items[x].UnitPrice <= 0
       \/ request.Items[x].Quantity <= 0
       \/ Len(request.Items[x].Consumers) = 0
       \/ request.Items[x].PaidBy = ""

\* C12: CalculateSingleBill returns a validation error and no result when the item
\* list is empty, when tax, serviceCharge or totalDiscount is negative, or when an item
\* has unitPrice <= 0, quantity <= 0, no consumers or no paidBy; an error about an
\* item names the 1-based index of the first item that fails a check.
C12_ValidationErrors ==
  /\ (pc # "request" /\ Offending) =>
       /\ pc = "rejected"
       /\ result.Error # "none"
       /\ DOMAIN result \subseteq {"Error", "Item"}
  /\ (pc = "rejected" /\ "Item" \in DOMAIN result) =>
       /\ result.Item \in DOMAIN request.Items
       /\ FailsCheck(request.Items[result.Item])
       /\ \A y \in 1..(result.Item - 1) : ~FailsCheck(request.Items[y])

\* C12 witness: the second item of a request is free of charge, the first is in
\* order, and the error names item 2
C12_Witness ==
  /\ pc = "rejected" /\ Len(request.Items) = 2
  /\ request.Items[2].UnitPrice = 0 /\ request.Items[2].Description # ""
  /\ ~FailsCheck(request.Items[1])
  /\ "Item" \in DOMAIN result /\ result.Item = 2
  /\ result.Error = "item price must be positive"

\* C13: CalculateSettlements for a trip with no expenses returns, without error, an
\* empty settlement list and an empty balance map.
C13_EmptyTrip ==
  /\ pc = "empty" => (nExpenses = 0 /\ settlements = <<>> /\ balances = EmptyMap)
  /\ (pc \notin {"expenses", "items", "failed"} /\ nExpenses = 0) => pc = "empty"

\* C13 witness: the call returned for a trip of which no expense was walked
C13_Witness == pc = "empty" /\ nExpenses = 0 /\ DOMAIN balances = {}

\* C14: every settlement emitted by calculateOptimalSettlements has amount > 0, its
\* From is a person whose input balance was negative and its To is a person whose
\* input balance was positive, so From and To are never the same person.
C14_FromDebtorToCreditor ==
  pc \in {"settle", "done"} =>
    \A x \in DOMAIN settlements :
      /\ settlements[x].Amount > 0
      /\ balances[settlements[x].From] < 0
      /\ balances[settlements[x].To] > 0
      /\ settlements[x].From # settlements[x].To

\* C14 witness: three settlements were emitted, among two debtors and two creditors
C14_Witness ==
  /\ pc = "done" /\ Len(settlements) = 3
  /\ Cardinality({settlements[x].From : x \in DOMAIN settlements}) = 2
  /\ Cardinality({settlements[x].To : x \in DOMAIN settlements}) = 2

\* the extra charges of the one expense
ExtraCharges == oneExpense.Tax + oneExpense.ServiceCharge - oneExpense.TotalDiscount

\* what the proportional loop debits, before the rounding adjustment
Allocated ==
  LET totals == itemTotals(oneExpense.Items, EmptyMap)
  IN SumMap([p \in DOMAIN totals |->
               ExtraChargeShare(ExtraCharges, totals[p], SumAmounts(oneExpense.Items))])

\* C15: for an itemized expense with extraCharges # 0 and a total item amount > 0, the
\* extra-charge debits, the rounding adjustment of the last person included, sum to
\* extraCharges, the credit of the primary payer: the extra-charge step leaves the sum
\* of all balances where the item loop left it.
C15_ExtraChargesConserved ==
  (pc = "processed" /\ oneExpense.SplitType = "items" /\ HasExtraCharges(oneExpense)) =>
    LET afterItems == processItems(oneExpense.Items, entry)
        debit(p) == (afterItems[p] + (IF p = creditedPayer THEN ExtraCharges ELSE 0))
                      - balances[p]
    IN /\ DOMAIN balances = DOMAIN afterItems \cup {creditedPayer}
       /\ SumMap([p \in DOMAIN afterItems |-> debit(p)]) = ExtraCharges
       /\ SumMap(balances) = SumMap(afterItems)

\* C15 witness: the proportional shares did not add up to the extra charges, so the
\* last person took a rounding adjustment
C15_Witness ==
  /\ pc = "processed" /\ oneExpense.SplitType = "items" /\ HasExtraCharges(oneExpense)
  /\ Allocated # ExtraCharges
  /\ Cardinality(DOMAIN personItemTotals) = 2

\* the payer the claim names: of the item payers with the largest cumulative item
\* amount the one met first in the item list, the recorded paidBy when no item payer
\* has a positive total
FirstLargestPayer ==
  LET counts == paidAmounts(oneExpense.Items, EmptyMap)
      largest == {p \in DOMAIN counts :
                    counts[p] > 0 /\ \A q \in DOMAIN counts : counts[q] <= counts[p]}
      first == CHOOSE x \in DOMAIN oneExpense.Items :
                 /\ oneExpense.Items[x].PaidBy \in largest
                 /\ \A y \in 1..(x - 1) : oneExpense.Items[y].PaidBy \notin largest
  IN IF largest = {} THEN oneExpense.PaidBy ELSE oneExpense.Items[first].PaidBy

\* C16 (as claimed): the person credited with the extra charges of an itemized expense
\* is the item payer with the largest cumulative item amount, the first met in
\* item-list order when several tie, the recorded paidBy when none has a positive total.
C16_PrimaryPayer ==
  (pc = "processed" /\ oneExpense.SplitType = "items" /\ HasExtraCharges(oneExpense)) =>
    creditedPayer = FirstLargestPayer

\* C17 (as claimed): two calls of calculateBalances on the same expense list return
\* the same balance map, whatever order the map loops run in.
C17_SameListSameBalances ==
  (pc = "twice" /\ reordered = expenses) => again = balances

\* C18 (as claimed): a call of calculateBalances on a permutation of the expense list
\* returns the same balance map as the call on the list.
C18_OrderOfExpenses ==
  (pc = "twice" /\ reordered # expenses) => again = balances

\* ------------------------------------------------ sortByBalance called alone
\* The slices extractCreditors and extractDebtors build from a balance map: n
\* entries of different persons, each with a positive rounded balance, in the
\* order the map iteration produced them.
Slices(n) ==
  {[x \in 1..n |-> [Person |-> o[x], Balance |-> SubCent * b[x]]] :
     o \in {f \in [1..n -> SettlePersons] : \A x, y \in 1..n : f[x] = f[y] => x = y},
     b \in [1..n -> 1..MaxBalance]}

\* the call sortByBalance(slice); entry keeps the slice as it was handed over
InitSort ==
  /\ pc = "sort"
  /\ \E n \in 0..MaxSlice : creditors \in Slices(n)
  /\ entry = creditors
  /\ balances = EmptyMap
  /\ oneExpense = NoExpense
  /\ creditedPayer = ""
  /\ expenses = <<>>
  /\ reordered = <<>>
  /\ again = EmptyMap
  /\ NoStore
  /\ request = NoRequest
  /\ result = NoResult
  /\ nExpenses = 0
  /\ exactInput = FALSE
  /\ personItemTotals = EmptyMap
  /\ totalItemAmount = 0
  /\ payerCounts = EmptyMap
  /\ paidBy = ""
  /\ nItems = 0
  /\ debtors = <<>>
  /\ i = 1
  /\ j = 1
  /\ settlements = <<>>

\* sortByBalance sorts the slice in place
SortByBalance ==
  /\ pc = "sort"
  /\ creditors' = sortByBalance(creditors)
  /\ pc' = "sorted"
  /\ UNCHANGED <<balances, nExpenses, exactInput, personItemTotals, totalItemAmount,
                 payerCounts, paidBy, nItems, debtors, i, j, settlements, billVars,
                 callVars, storeVars>>

SpecSort == InitSort /\ [][SortByBalance]_vars

\* ------------------------------------------ generateSettlements called alone
CreditorNames == <<"a", "b", "c">>

DebtorNames == <<"d", "e", "f">>

\* the lists of at most MaxList entries with positive amounts of whole cents, in any
\* order
PositiveLists(names) ==
  UNION {{[x \in 1..n |-> [Person |-> names[x], Balance |-> SubCent * b[x]]] :
            b \in [1..n -> 1..MaxBalance]} : n \in 0..MaxList}

\* the balance map the two lists stand for
ListBalances(cs, ds) ==
  [p \in {cs[x].Person : x \in DOMAIN cs} \cup {ds[x].Person : x \in DOMAIN ds} |->
     IF \E x \in DOMAIN cs : cs[x].Person = p
     THEN (CHOOSE c \in Range(cs) : c.Person = p).Balance
     ELSE -(CHOOSE d \in Range(ds) : d.Person = p).Balance]

\* the call generateSettlements(creditors, debtors), at `i, j := 0, 0`
InitGenerate ==
  /\ pc = "settle"
  /\ creditors \in PositiveLists(CreditorNames)
  /\ debtors \in PositiveLists(DebtorNames)
  /\ balances = ListBalances(creditors, debtors)
  /\ i = 1
  /\ j = 1
  /\ settlements = <<>>
  /\ NoCall
  /\ request = NoRequest
  /\ result = NoResult
  /\ nExpenses = 0
  /\ exactInput = FALSE
  /\ personItemTotals = EmptyMap
  /\ totalItemAmount = 0
  /\ payerCounts = EmptyMap
  /\ paidBy = ""
  /\ nItems = 0

NextGenerate ==
  \/ GenerateSettlementsStep
  \/ ReturnSettlements

\* the call runs on: the goroutine of the request executes the next iteration of the
\* loop, or the return, whenever there is one
SpecGenerate == InitGenerate /\ [][NextGenerate]_vars /\ WF_vars(NextGenerate)

\* the persons owed money and the persons owing money in the balance map
Owed == {p \in DOMAIN balances : balances[p] > 0}

Owing == {p \in DOMAIN balances : balances[p] < 0}

\* C19: reading the settlements front to back, the creditors named in To come in
\* non-increasing order of their input balance and the debtors named in From in
\* non-increasing order of their input debt; a single creditor owed exactly the sum of
\* k debts receives exactly k transfers, one per debtor for the debtor's full debt,
\* the largest debt first.
C19_CursorOrder ==
  pc = "done" =>
    /\ \A x, y \in DOMAIN settlements :
         x < y => /\ balances[settlements[x].To] >= balances[settlements[y].To]
                  /\ -balances[settlements[x].From] >= -balances[settlements[y].From]
    /\ (Cardinality(Owed) = 1 /\ SumMap(balances) = 0) =>
         /\ Len(settlements) = Cardinality(Owing)
         /\ {settlements[x].From : x \in DOMAIN settlements} = Owing
         /\ \A x \in DOMAIN settlements :
              /\ settlements[x].To \in Owed
              /\ settlements[x].Amount = -balances[settlements[x].From]
         /\ \A x, y \in DOMAIN settlements :
              x < y => settlements[x].Amount >= settlements[y].Amount

\* C19 witness: one creditor is owed what two debtors of different debts owe, and
\* received two transfers
C19_Witness ==
  /\ pc = "done" /\ Cardinality(Owed) = 1 /\ SumMap(balances) = 0
  /\ Cardinality(Owing) = 2 /\ Len(settlements) = 2
  /\ settlements[1].Amount > settlements[2].Amount

\* where the entry of the handed-over slice stands in the sorted slice
SortedPosition(x) == CHOOSE k \in DOMAIN creditors : creditors[k] = entry[x]

\* C20: sortByBalance is a stable descending sort: entries of equal balance keep the
\* relative order they had in the slice handed over.
C20_StableSort ==
  pc = "sorted" =>
    \A x, y \in DOMAIN entry :
      (x < y /\ entry[x].Balance = entry[y].Balance)
        => SortedPosition(x) < SortedPosition(y)

\* C20 as the code has it: sortByBalance is a descending sort, the same entries in
\* non-increasing order of balance, with no promise about entries of equal balance.
C20_DescendingSort ==
  pc = "sorted" =>
    /\ Len(creditors) = Len(entry)
    /\ Range(creditors) = Range(entry)
    /\ \A x, y \in DOMAIN creditors :
         x < y => creditors[x].Balance >= creditors[y].Balance

\* C20 witness: two entries of equal balance came out of the sort in the opposite
\* order
C20_Witness ==
  /\ pc = "sorted"
  /\ \E x, y \in DOMAIN entry :
       /\ x < y /\ entry[x].Balance = entry[y].Balance
       /\ SortedPosition(x) > SortedPosition(y)

\* one iteration of the loop of generateSettlements has run
LoopIteration == pc = "settle" /\ pc' = "settle"

\* C21: generateSettlements terminates for lists of positive cent-quantized amounts:
\* every loop iteration advances at least one of the two cursors, the loop runs only
\* while both cursors are inside their lists and has stopped once one is past the end,
\* and the call returns.
C21_Terminates ==
  /\ [][LoopIteration => /\ i <= Len(creditors) /\ j <= Len(debtors)
                         /\ i' >= i /\ j' >= j
                         /\ (i' > i \/ j' > j)]_vars
  /\ [](pc = "done" => (i > Len(creditors) \/ j > Len(debtors)))
  /\ [](pc = "settle" => (i <= Len(creditors) + 1 /\ j <= Len(debtors) + 1))
  /\ <>(pc = "done")

\* C21 witness: the loop ran at least twice and stopped with the creditors exhausted
\* while a debtor was still waiting
C21_Witness ==
  /\ pc = "done" /\ Len(settlements) >= 2
  /\ i = Len(creditors) + 1 /\ j <= Len(debtors)

\* what the items of a list credit to p as their payer
RECURSIVE PaidSum(_, _)
PaidSum(p, items) ==
  IF items = <<>> THEN 0
  ELSE (IF Head(items).PaidBy = p THEN Head(items).Amount ELSE 0) + PaidSum(p, Tail(items))

\* what the items of a list debit from p as a consumer, once for each listing
RECURSIVE ConsumedSum(_, _)
ConsumedSum(p, items) ==
  IF items = <<>> THEN 0
  ELSE Count(p, Head(items).Consumers)
         * Round(Head(items).Amount, Len(Head(items).Consumers))
       + ConsumedSum(p, Tail(items))

\* the persons the items of a list name
NamedInItems(items) ==
  UNION {{items[x].PaidBy} \cup Range(items[x].Consumers) : x \in DOMAIN items}

\* C22: an itemized expense whose extraCharges are 0, or whose total item amount is not
\* positive, changes balances only by the per-item credits and debits: nobody is
\* credited the extra charges, debited a proportional share or given a rounding
\* adjustment.
C22_NoExtraChargeStep ==
  (/\ pc = "processed" /\ oneExpense.SplitType = "items"
   /\ (ExtraCharges = 0 \/ SumAmounts(oneExpense.Items) <= 0)) =>
    /\ creditedPayer = ""
    /\ DOMAIN balances = DOMAIN entry \cup NamedInItems(oneExpense.Items)
    /\ \A p \in DOMAIN balances :
         balances[p] = Get(entry, p) + PaidSum(p, oneExpense.Items)
                         - ConsumedSum(p, oneExpense.Items)

\* C22 witness: an expense with tax whose item amounts cancel, processed on top of
\* earlier balances that its items changed
C22_Witness ==
  /\ pc = "processed" /\ oneExpense.SplitType = "items"
  /\ ExtraCharges > 0 /\ SumAmounts(oneExpense.Items) <= 0
  /\ Len(oneExpense.Items) = 2
  /\ entry # EmptyMap /\ balances # entry

\* C24: when the balances given to calculateOptimalSettlements are whole cents that sum
\* to zero, applying the emitted settlements leaves every balance exactly zero, and the
\* creditor cursor and the debtor cursor are both past the end of their lists when the
\* loop stops: nothing is left unsettled.
C24_ZeroSumSettledExactly ==
  (pc = "done" /\ SumMap(balances) = 0) =>
    /\ \A p \in DOMAIN balances : AfterSettlements(p) = 0
    /\ i = Len(creditors) + 1 /\ j = Len(debtors) + 1
    /\ \A x \in DOMAIN creditors : creditors[x].Balance = 0
    /\ \A x \in DOMAIN debtors : debtors[x].Balance = 0

\* C24 witness: a zero-sum map with two creditors and two debtors was settled with
\* three transfers
C24_Witness ==
  /\ pc = "done" /\ SumMap(balances) = 0
  /\ Cardinality(Owed) = 2 /\ Cardinality(Owing) = 2
  /\ Len(settlements) = 3

\* C25: when calculateOptimalSettlements returns, no one is over-settled: the payments
\* of each debtor total at most the debt, the receipts of each creditor total at most
\* the credit, and either every creditor or every debtor is settled in full.
C25_NoOverSettlement ==
  pc = "done" =>
    /\ \A p \in DOMAIN balances :
         /\ PaidOutBy(p, settlements) <= (IF balances[p] < 0 THEN -balances[p] ELSE 0)
         /\ ReceivedBy(p, settlements) <= (IF balances[p] > 0 THEN balances[p] ELSE 0)
    /\ \/ \A p \in Owed : ReceivedBy(p, settlements) = balances[p]
       \/ \A p \in Owing : PaidOutBy(p, settlements) = -balances[p]

\* C25 witness: the debtors paid all they owed in three transfers and a creditor is
\* still owed a part of the credit
C25_Witness ==
  /\ pc = "done" /\ Len(settlements) = 3
  /\ \A p \in Owing : PaidOutBy(p, settlements) = -balances[p]
  /\ \E p \in Owed : /\ ReceivedBy(p, settlements) > 0
                     /\ ReceivedBy(p, settlements) < balances[p]

\* C26 (as claimed): for every accepted request and every participant p,
\* perPersonCharges[p] equals perPersonBreakdown[p].Total.
C26_ChargeIsBreakdownTotal ==
  pc = "returned" =>
    /\ DOMAIN result.PerPersonCharges = DOMAIN result.PerPersonBreakdown
    /\ \A p \in DOMAIN result.PerPersonCharges :
         result.PerPersonCharges[p] = result.PerPersonBreakdown[p].Total

\* C27 (as claimed): for every request that passes validateCalculationRequest, every
\* item amount unitPrice * quantity - itemDiscount and every per-person Subtotal is
\* non-negative.
C27_NoNegativeAmounts ==
  pc \in {"validated", "returned"} =>
    /\ \A x \in DOMAIN request.Items :
         request.Items[x].UnitPrice * request.Items[x].Quantity
           - request.Items[x].ItemDiscount >= 0
    /\ pc = "returned" =>
         \A p \in DOMAIN result.PerPersonBreakdown :
           result.PerPersonBreakdown[p].Subtotal >= 0

\* ------------------------------------------------------ names in requests
\* A name as a request carries it is a sequence of characters; a stored name is the
\* string NormalizeName makes of it.
ToLower(c) == IF c = "A" THEN "a" ELSE IF c = "B" THEN "b" ELSE c

\* strings.TrimSpace
RECURSIVE TrimLeft(_)
TrimLeft(cs) == IF cs # <<>> /\ Head(cs) = " " THEN TrimLeft(Tail(cs)) ELSE cs

RECURSIVE TrimRight(_)
TrimRight(cs) ==
  IF cs # <<>> /\ cs[Len(cs)] = " " THEN TrimRight(SubSeq(cs, 1, Len(cs) - 1)) ELSE cs

TrimSpace(cs) == TrimRight(TrimLeft(cs))

\* the Go string of a sequence of characters
RECURSIVE Text(_)
Text(cs) == IF cs = <<>> THEN "" ELSE Head(cs) \o Text(Tail(cs))

\* utils.NormalizeName: strings.ToLower(strings.TrimSpace(name))
NormalizeName(name) == Text([x \in DOMAIN TrimSpace(name) |-> ToLower(TrimSpace(name)[x])])

\* utils.NormalizeNames
NormalizeNames(names) == [x \in DOMAIN names |-> NormalizeName(names[x])]

\* utils.ValidateRequired fails: strings.TrimSpace(value) == ""
IsBlank(value) == TrimSpace(value) = <<>>

\* ------------------------------------------------- the expenses of one trip
\* the names the add-expense requests carry: a blank one, two spellings of one name
\* and a padded one
RequestNames == {<<" ">>, <<"a">>, <<"A">>, <<"b", " ">>}

\* the lists of at most two of them
RequestNameLists == UNION {[1..n -> RequestNames] : n \in 0..2}

\* models.AddEqualExpenseRequest, with a code, a description and amounts that pass
EqualExpenseRequests ==
  [Subtotal : {MaxSubtotal}, PaidBy : RequestNames, SplitAmong : RequestNameLists]

\* models.Item as the add-items requests carry it
RequestItems ==
  [UnitPrice : {MaxPrice}, Quantity : {1}, ItemDiscount : {0},
   PaidBy : {<<" ">>, <<"b", " ">>},
   Consumers : {<<>>, << <<"A">> >>, << <<"a">>, <<"b", " ">> >>, << <<"a">>, <<"A">> >>}]

\* models.AddItemsExpenseRequest, with a code, a description and extras that pass
ItemsExpenseRequests == [Items : UNION {[1..n -> RequestItems] : n \in 0..MaxItems}]

\* ExpenseService.validateEqualExpenseRequest and the binding of the request
EqualExpenseRequestFails(req) ==
  \/ IsBlank(req.PaidBy)
  \/ req.SplitAmong = <<>>
  \/ \E x \in DOMAIN req.SplitAmong : IsBlank(req.SplitAmong[x])

\* ExpenseService.validateItemsExpenseRequest and the binding of the request
ItemsExpenseRequestFails(req) ==
  \/ req.Items = <<>>
  \/ \E x \in DOMAIN req.Items :
       \/ req.Items[x].UnitPrice <= 0
       \/ req.Items[x].Quantity <= 0
       \/ IsBlank(req.Items[x].PaidBy)
       \/ req.Items[x].Consumers = <<>>
       \/ \E y \in DOMAIN req.Items[x].Consumers : IsBlank(req.Items[x].Consumers[y])

\* the expense with the id utils.GenerateID gave it
WithID(expense, id) ==
  [f \in DOMAIN expense \cup {"ID"} |-> IF f = "ID" THEN id ELSE expense[f]]

\* ExpenseService.CreateEqualExpense, after the validation
EqualExpenseOf(req, id) ==
  WithID(CreateEqualExpense(req.Subtotal, 0, 0, 0, NormalizeName(req.PaidBy),
                            NormalizeNames(req.SplitAmong)), id)

\* ExpenseService.processExpenseItems
ProcessedItems(items) ==
  [x \in DOMAIN items |->
     ProcessedItem(items[x].UnitPrice, items[x].Quantity, items[x].ItemDiscount,
                   NormalizeName(items[x].PaidBy), NormalizeNames(items[x].Consumers))]

\* ExpenseService.CreateItemsExpense, after the validation
ItemsExpenseOf(req, id) == WithID(CreateItemsExpense(ProcessedItems(req.Items), 0, 0, 0), id)

HasRepeat(names) == \E x, y \in DOMAIN names : x # y /\ names[x] = names[y]

\* ExpenseRepository.StoreExpense fails and rolls back: an insert into
\* expense_participants or item_consumers repeats a name of the same expense or item
StoreExpenseFails(expense) ==
  IF expense.SplitType = "equal" THEN HasRepeat(expense.SplitAmong)
  ELSE \E x \in DOMAIN expense.Items : HasRepeat(expense.Items[x].Consumers)

\* services.CreateTrip: the trip holds its creator
InitTrip ==
  /\ pc = "trip"
  /\ tripParticipants = {NormalizeName(<<"A">>)}
  /\ stored = <<>>
  /\ nextID = 0
  /\ fetched = <<>>
  /\ loading = NotLoading
  /\ adders = <<>>
  /\ payments = <<>>
  /\ paymentRequest = NoPayment
  /\ response = "none"
  /\ oneExpense = NoExpense
  /\ entry = <<>>
  /\ creditedPayer = ""
  /\ expenses = <<>>
  /\ reordered = <<>>
  /\ again = EmptyMap
  /\ request = NoRequest
  /\ result = NoResult
  /\ balances = EmptyMap
  /\ nExpenses = 0
  /\ exactInput = FALSE
  /\ personItemTotals = EmptyMap
  /\ totalItemAmount = 0
  /\ payerCounts = EmptyMap
  /\ paidBy = ""
  /\ nItems = 0
  /\ creditors = <<>>
  /\ debtors = <<>>
  /\ i = 1
  /\ j = 1
  /\ settlements = <<>>

\* what a request to the store leaves alone besides the tables it writes
RequestFrame ==
  UNCHANGED <<pc, settleVars, billVars, callVars, fetched, loading, adders, payments,
              paymentRequest>>

\* handlers.AddEqualExpenseRefactored: validate, add the splitAmong names to the trip,
\* store the expense in one transaction
AddEqualExpenseRefactored ==
  /\ nextID < MaxAdded
  /\ \E req \in EqualExpenseRequests :
       IF EqualExpenseRequestFails(req)
       THEN /\ response' = "invalid"
            /\ UNCHANGED <<tripParticipants, stored, nextID>>
       ELSE LET expense == EqualExpenseOf(req, nextID + 1)
            IN /\ nextID' = nextID + 1
               /\ tripParticipants' = tripParticipants \cup Range(NormalizeNames(req.SplitAmong))
               /\ IF StoreExpenseFails(expense)
                  THEN stored' = stored /\ response' = "failed"
                  ELSE stored' = Append(stored, expense) /\ response' = "ok"
  /\ RequestFrame

\* handlers.AddItemsExpenseRefactored: validate, add every item payer and consumer to
\* the trip, store the expense in one transaction
AddItemsExpenseRefactored ==
  /\ nextID < MaxAdded
  /\ \E req \in ItemsExpenseRequests :
       IF ItemsExpenseRequestFails(req)
       THEN /\ response' = "invalid"
            /\ UNCHANGED <<tripParticipants, stored, nextID>>
       ELSE LET expense == ItemsExpenseOf(req, nextID + 1)
            IN /\ nextID' = nextID + 1
               /\ tripParticipants' =
                    tripParticipants
                      \cup UNION {{expense.Items[x].PaidBy} \cup Range(expense.Items[x].Consumers) :
                                    x \in DOMAIN expense.Items}
               /\ IF StoreExpenseFails(expense)
                  THEN stored' = stored /\ response' = "failed"
                  ELSE stored' = Append(stored, expense) /\ response' = "ok"
  /\ RequestFrame

\* handlers.RemoveExpenseRefactored: the delete cascades to the participants, the items
\* and the consumers of the expense
RemoveExpense ==
  /\ \E id \in 1..nextID :
       IF \E x \in DOMAIN stored : stored[x].ID = id
       THEN /\ stored' = SelectSeq(stored, LAMBDA e : e.ID # id)
            /\ response' = "ok"
       ELSE /\ stored' = stored
            /\ response' = "not found"
  /\ UNCHANGED <<tripParticipants, nextID>>
  /\ RequestFrame

\* what a request that only reads the tables leaves alone
ReadFrame ==
  UNCHANGED <<settleVars, billVars, oneExpense, entry, creditedPayer, reordered, again,
              tripParticipants, stored, nextID, adders, payments, paymentRequest>>

\* the expense of the trip with this id, as a set of at most one
StoredWithID(id) == {stored[x] : x \in {y \in DOMAIN stored : stored[y].ID = id}}

\* ExpenseRepository.GetExpenses, the first query: the rows of table expenses
QueryExpenses ==
  /\ pc = "trip"
  /\ fetched' = [x \in DOMAIN stored |->
                   IF stored[x].SplitType = "equal"
                   THEN [stored[x] EXCEPT !.SplitAmong = <<>>]
                   ELSE [stored[x] EXCEPT !.Items = <<>>]]
  /\ loading' = [Expense |-> 1, Item |-> 0]
  /\ pc' = "loading"
  /\ UNCHANGED <<expenses, response>>
  /\ ReadFrame

\* the cursor after the queries of one expense
NextExpense == [Expense |-> loading.Expense + 1, Item |-> 0]

\* GetExpenses, the query of expense_participants for one equal-split row
LoadParticipants ==
  /\ pc = "loading"
  /\ loading.Expense <= Len(fetched)
  /\ fetched[loading.Expense].SplitType = "equal"
  /\ LET found == StoredWithID(fetched[loading.Expense].ID)
         rows == IF found = {} THEN <<>> ELSE (CHOOSE e \in found : TRUE).SplitAmong
     IN fetched' = [fetched EXCEPT ![loading.Expense].SplitAmong = rows]
  /\ loading' = NextExpense
  /\ UNCHANGED <<pc, expenses, response>>
  /\ ReadFrame

\* GetExpenses, the query of expenses_items for one itemized row: the items come
\* without their consumers
LoadItems ==
  /\ pc = "loading"
  /\ loading.Expense <= Len(fetched)
  /\ fetched[loading.Expense].SplitType = "items"
  /\ loading.Item = 0
  /\ LET found == StoredWithID(fetched[loading.Expense].ID)
         rows == IF found = {} THEN <<>>
                 ELSE LET items == (CHOOSE e \in found : TRUE).Items
                      IN [x \in DOMAIN items |-> [items[x] EXCEPT !.Consumers = <<>>]]
     IN /\ fetched' = [fetched EXCEPT ![loading.Expense].Items = rows]
        /\ loading' = IF rows = <<>> THEN NextExpense ELSE [loading EXCEPT !.Item = 1]
  /\ UNCHANGED <<pc, expenses, response>>
  /\ ReadFrame

\* GetExpenses, the query of item_consumers for one item of the itemized row
LoadConsumers ==
  /\ pc = "loading"
  /\ loading.Expense <= Len(fetched)
  /\ loading.Item >= 1
  /\ LET found == StoredWithID(fetched[loading.Expense].ID)
         rows == IF found = {} THEN <<>>
                 ELSE (CHOOSE e \in found : TRUE).Items[loading.Item].Consumers
     IN fetched' = [fetched EXCEPT ![loading.Expense].Items[loading.Item].Consumers = rows]
  /\ loading' = IF loading.Item < Len(fetched[loading.Expense].Items)
                THEN [loading EXCEPT !.Item = @ + 1]
                ELSE NextExpense
  /\ UNCHANGED <<pc, expenses, response>>
  /\ ReadFrame

\* SettlementService.CalculateSettlements: GetExpenses has returned and its expenses
\* go to calculateBalances
AggregateFetched ==
  /\ pc = "loading"
  /\ loading.Expense > Len(fetched)
  /\ expenses' = fetched
  /\ pc' = "aggregate"
  /\ UNCHANGED <<fetched, loading, response>>
  /\ ReadFrame

\* handlers.CalculateSettlementsRefactored answers
AnswerSettlements ==
  /\ pc = "aggregate"
  /\ pc' = "trip"
  /\ expenses' = <<>>
  /\ fetched' = <<>>
  /\ loading' = NotLoading
  /\ response' = "settled"
  /\ ReadFrame

\* add-expense, remove-expense and calculate-settlements requests to one trip, the
\* queries of a running GetExpenses interleaved with the other requests
NextTrip ==
  \/ AddEqualExpenseRefactored
  \/ AddItemsExpenseRefactored
  \/ RemoveExpense
  \/ QueryExpenses
  \/ LoadParticipants
  \/ LoadItems
  \/ LoadConsumers
  \/ AggregateFetched
  \/ AnswerSettlements

SpecTrip == InitTrip /\ [][NextTrip]_vars

\* calculateBalances divides the amount of this expense by the length of an empty list
DividesByZeroLength(e) ==
  IF e.SplitType = "equal" THEN Len(e.SplitAmong) = 0
  ELSE \E x \in DOMAIN e.Items : Len(e.Items[x].Consumers) = 0

\* C23 (as claimed): whatever the add-expense, remove-expense and calculate-settlements
\* requests and however they interleave, every expense handed to calculateBalances has
\* a non-empty splitAmong (equal split) and a non-empty consumer list on every item
\* (itemized), so that calculateBalances never divides by the length of an empty list.
C23_NoEmptySplit ==
  pc = "aggregate" => \A x \in DOMAIN expenses : ~DividesByZeroLength(expenses[x])

\* the persons a stored expense names
NamedIn(e) ==
  IF e.SplitType = "equal" THEN {e.PaidBy} \cup Range(e.SplitAmong)
  ELSE UNION {{e.Items[x].PaidBy} \cup Range(e.Items[x].Consumers) : x \in DOMAIN e.Items}

\* C28 (as claimed): after any sequence of successful add-expense requests through the
\* refactored handlers, every person a stored expense of the trip names (the payer and
\* the splitAmong members of an equal split, the payer and the consumers of every item
\* of an itemized one) is in the participant list of the trip.
C28_NamedAreParticipants ==
  \A x \in DOMAIN stored : NamedIn(stored[x]) \subseteq tripParticipants

\* ------------------------------------------------- TripService.AddParticipant
\* MaxCallers calls of AddParticipant on one trip, each with the name its caller
\* passes; the trip holds its creator and perhaps one more participant
InitParticipant ==
  /\ pc = "participants"
  /\ tripParticipants \in {{"a"}, {"a", "b"}}
  /\ adders \in [1..MaxCallers -> [Name : RequestNames, At : {"call"}]]
  /\ stored = <<>>
  /\ nextID = 0
  /\ fetched = <<>>
  /\ loading = NotLoading
  /\ payments = <<>>
  /\ paymentRequest = NoPayment
  /\ response = "none"
  /\ oneExpense = NoExpense
  /\ entry = <<>>
  /\ creditedPayer = ""
  /\ expenses = <<>>
  /\ reordered = <<>>
  /\ again = EmptyMap
  /\ request = NoRequest
  /\ result = NoResult
  /\ balances = EmptyMap
  /\ nExpenses = 0
  /\ exactInput = FALSE
  /\ personItemTotals = EmptyMap
  /\ totalItemAmount = 0
  /\ payerCounts = EmptyMap
  /\ paidBy = ""
  /\ nItems = 0
  /\ creditors = <<>>
  /\ debtors = <<>>
  /\ i = 1
  /\ j = 1
  /\ settlements = <<>>

\* what a step of AddParticipant leaves alone
ParticipantFrame ==
  UNCHANGED <<pc, settleVars, billVars, callVars, stored, nextID, fetched, loading,
              payments, paymentRequest, response>>

\* TripService.AddParticipant up to the answer of TripRepository.AddParticipant's
\* SELECT COUNT(*): a blank name is an error, a name already in the trip is a success
CheckParticipant(k) ==
  /\ adders[k].At = "call"
  /\ adders' = [adders EXCEPT ![k].At =
                  IF IsBlank(adders[k].Name) THEN "invalid"
                  ELSE IF NormalizeName(adders[k].Name) \in tripParticipants THEN "ok"
                  ELSE "insert"]
  /\ tripParticipants' = tripParticipants
  /\ ParticipantFrame

\* TripRepository.AddParticipant, the INSERT: the primary key (trip_id, participant)
\* refuses a row that is already there, and the call returns the error
InsertParticipant(k) ==
  /\ adders[k].At = "insert"
  /\ IF NormalizeName(adders[k].Name) \in tripParticipants
     THEN /\ adders' = [adders EXCEPT ![k].At = "failed"]
          /\ tripParticipants' = tripParticipants
     ELSE /\ adders' = [adders EXCEPT ![k].At = "ok"]
          /\ tripParticipants' = tripParticipants \cup {NormalizeName(adders[k].Name)}
  /\ ParticipantFrame

NextParticipant ==
  \/ \E k \in 1..MaxCallers : CheckParticipant(k)
  \/ \E k \in 1..MaxCallers : InsertParticipant(k)

SpecParticipant == InitParticipant /\ [][NextParticipant]_vars

\* C29 (as claimed): AddParticipant is idempotent, also under concurrency: a call with
\* a name already in the trip returns success and leaves the participant set unchanged,
\* and when two calls with the same new name interleave, each doing its existence check
\* before either inserts, both return success (the name being stored once).
C29_IdempotentUnderConcurrency ==
  \A k \in DOMAIN adders :
    /\ adders[k].At # "failed"
    /\ adders[k].At = "ok" => NormalizeName(adders[k].Name) \in tripParticipants

\* ------------------------------------------------ PaymentService.CreatePayment
\* the names a payment request carries: none, a blank one, a name, the name padded,
\* another name
PaymentNames == {<<>>, <<" ">>, <<"a">>, <<"a", " ">>, <<"b">>}

\* one payment request, for the code of a trip that exists or of none
InitPayment ==
  /\ pc = "payment"
  /\ paymentRequest \in [Code : {"TRIP", "NONE"}, FromPerson : PaymentNames,
                         ToPerson : PaymentNames, Amount : -1..MaxPayment]
  /\ payments = <<>>
  /\ tripParticipants = {"a"}
  /\ adders = <<>>
  /\ stored = <<>>
  /\ nextID = 0
  /\ fetched = <<>>
  /\ loading = NotLoading
  /\ response = "none"
  /\ oneExpense = NoExpense
  /\ entry = <<>>
  /\ creditedPayer = ""
  /\ expenses = <<>>
  /\ reordered = <<>>
  /\ again = EmptyMap
  /\ request = NoRequest
  /\ result = NoResult
  /\ balances = EmptyMap
  /\ nExpenses = 0
  /\ exactInput = FALSE
  /\ personItemTotals = EmptyMap
  /\ totalItemAmount = 0
  /\ payerCounts = EmptyMap
  /\ paidBy = ""
  /\ nItems = 0
  /\ creditors = <<>>
  /\ debtors = <<>>
  /\ i = 1
  /\ j = 1
  /\ settlements = <<>>

\* PaymentService.CreatePayment and PaymentRepository.CreatePayment
CreatePayment ==
  /\ pc = "payment"
  /\ pc' = "paid"
  /\ IF \/ TrimSpace(paymentRequest.FromPerson) = <<>>
        \/ TrimSpace(paymentRequest.ToPerson) = <<>>
        \/ paymentRequest.FromPerson = paymentRequest.ToPerson
        \/ paymentRequest.Amount <= 0
        \/ paymentRequest.Code # "TRIP"
     THEN /\ response' = "error"
          /\ payments' = payments
     ELSE /\ response' = "ok"
          /\ payments' = Append(payments,
                                [FromPerson |-> Text(TrimSpace(paymentRequest.FromPerson)),
                                 ToPerson |-> Text(TrimSpace(paymentRequest.ToPerson)),
                                 Amount |-> paymentRequest.Amount])
  /\ UNCHANGED <<settleVars, billVars, callVars, tripParticipants, stored, nextID, fetched,
                 loading, adders, paymentRequest>>

SpecPayment == InitPayment /\ [][CreatePayment]_vars

\* C30 (as claimed): every payment record CreatePayment stores has a non-empty
\* FromPerson, a non-empty ToPerson, FromPerson different from ToPerson and
\* Amount > 0, and a rejected request stores nothing.
C30_StoredPaymentsValid ==
  /\ \A x \in DOMAIN payments :
       /\ payments[x].FromPerson # ""
       /\ payments[x].ToPerson # ""
       /\ payments[x].FromPerson # payments[x].ToPerson
       /\ payments[x].Amount > 0
  /\ response = "error" => payments = <<>>

====
